---- MODULE Spec2Model ----
(***************************************************************************)
(* Model of force_analysis.py: calc_vectors, multiply_coordinate_frame,    *)
(* scale_box_coordinates and calc_posres_forces, over numpy-style arrays.  *)
(*                                                                         *)
(* An array is a record [shape, data]: shape is the tuple of axis sizes    *)
(* and data maps every index tuple of that shape to an element.  Numeric   *)
(* elements are exact rationals <<numerator, denominator>> in lowest terms *)
(* (the model abstracts IEEE rounding); mask elements are booleans.        *)
(***************************************************************************)
EXTENDS Integers, Sequences, FiniteSets, TLC

VARIABLES fn, args, ret, locals

vars == <<fn, args, ret, locals>>

(***************************************************************************)
(* Bounds of the explored inputs.                                          *)
(***************************************************************************)
MaxFrames == 2
MaxParticles == 2
MaxCoord == 6

\* the dimensionality scale_box_coordinates requires of its last axes
NDims == 3

(***************************************************************************)
(* Exact arithmetic on array elements.                                     *)
(***************************************************************************)
IAbs(n) == IF n < 0 THEN -n ELSE n

RECURSIVE GCD(_, _)
GCD(a, b) == IF b = 0 THEN a ELSE GCD(b, a % b)

\* the rational n/d (d > 0) in lowest terms
Rat(n, d) == LET g == GCD(IAbs(n), d) IN <<n \div g, d \div g>>

R(n) == <<n, 1>>

RSub(x, y) == Rat(x[1] * y[2] - y[1] * x[2], x[2] * y[2])

RMul(x, y) == Rat(x[1] * y[1], x[2] * y[2])

\* true division by a non-zero element
RDiv(x, y) == IF y[1] > 0 THEN Rat(x[1] * y[2], x[2] * y[1])
                          ELSE Rat(-(x[1] * y[2]), x[2] * (-y[1]))

RNeg(x) == <<-x[1], x[2]>>

RAbs(x) == <<IAbs(x[1]), x[2]>>

RGt(x, y) == x[1] * y[2] > y[1] * x[2]

RLt(x, y) == x[1] * y[2] < y[1] * x[2]

RGe(x, y) == x[1] * y[2] >= y[1] * x[2]

RLe(x, y) == x[1] * y[2] <= y[1] * x[2]

BAnd(x, y) == x /\ y

(***************************************************************************)
(* numpy arrays: shapes, indices, broadcasting.                            *)
(***************************************************************************)
NoArray == [shape |-> <<>>, data |-> <<>>]

Array(shape, data) == [shape |-> shape, data |-> data]

Max2(a, b) == IF a >= b THEN a ELSE b

\* every index tuple of an array of this shape (1-based)
RECURSIVE Indices(_)
Indices(shape) ==
    IF shape = <<>> THEN {<<>>}
    ELSE {<<h>> \o t : h \in 1..Head(shape), t \in Indices(Tail(shape))}

\* size of axis k counted from the right, 1 where the shape has no such axis
AxisR(shape, k) == IF k <= Len(shape) THEN shape[Len(shape) - k + 1] ELSE 1

\* numpy's broadcasting rule: right-aligned axes agree or one of them is 1
Broadcastable(s1, s2) ==
    \A k \in 1..Max2(Len(s1), Len(s2)) :
        AxisR(s1, k) = AxisR(s2, k) \/ AxisR(s1, k) = 1 \/ AxisR(s2, k) = 1

BroadcastShape(s1, s2) ==
    LET n == Max2(Len(s1), Len(s2))
    IN  [k \in 1..n |-> Max2(AxisR(s1, n - k + 1), AxisR(s2, n - k + 1))]

\* the index of the operand element that result index i reads
OperandIndex(shape, i) ==
    LET off == Len(i) - Len(shape)
    IN  [k \in 1..Len(shape) |-> IF shape[k] = 1 THEN 1 ELSE i[off + k]]

\* the element operations of the binary array operators - / * > < >= &
Binary(op, x, y) ==
    CASE op = "-"  -> RSub(x, y)
      [] op = "/"  -> RDiv(x, y)
      [] op = "*"  -> RMul(x, y)
      [] op = ">"  -> RGt(x, y)
      [] op = "<"  -> RLt(x, y)
      [] op = ">=" -> RGe(x, y)
      [] op = "&"  -> BAnd(x, y)

\* the element operations of np.abs and of unary minus
Unary(op, x) ==
    CASE op = "abs" -> RAbs(x)
      [] op = "-"   -> RNeg(x)

\* Every array operator below has the form
\*     CHOOSE result \in {expression of A : A \in {operand}} : TRUE
\* which is the expression with A standing for the operand, the operand being
\* evaluated once instead of once per element read.

\* a binary array operator with broadcasting: a new array
ElemWise(op, operand1, operand2) ==
    CHOOSE result \in
        {Array(BroadcastShape(A.shape, B.shape),
               [i \in Indices(BroadcastShape(A.shape, B.shape)) |->
                   Binary(op, A.data[OperandIndex(A.shape, i)], B.data[OperandIndex(B.shape, i)])])
            : A \in {operand1}, B \in {operand2}} : TRUE

\* np.abs(A), -A: a new array
MapArray(op, operand) ==
    CHOOSE result \in
        {Array(A.shape, [i \in Indices(A.shape) |-> Unary(op, A.data[i])]) : A \in {operand}} : TRUE

\* a scalar operand is a rank-0 array
Scalar(v) == Array(<<>>, [i \in {<<>>} |-> v])

\* A[:, np.newaxis, :] of an array of rank >= 2: an axis of size 1 after the first
NewAxis(operand) ==
    CHOOSE result \in
        {Array(<<A.shape[1], 1>> \o Tail(A.shape),
               [i \in Indices(<<A.shape[1], 1>> \o Tail(A.shape)) |->
                   A.data[<<i[1]>> \o SubSeq(i, 3, Len(i))]])
            : A \in {operand}} : TRUE

\* target[mask] = source[mask]: the new contents of target's buffer
MaskedAssign(target, mask, source) ==
    CHOOSE result \in
        {Array(T.shape, [i \in Indices(T.shape) |-> IF M.data[i] THEN S.data[i] ELSE T.data[i]])
            : T \in {target}, M \in {mask}, S \in {source}} : TRUE

(***************************************************************************)
(* Outcome of a call: the exception raised ("none" when the call returns), *)
(* the source line of the raise, the returned array, and the contents of   *)
(* the argument arrays when the call ends.                                 *)
(***************************************************************************)
Raise(exc, line, after) == [raised |-> exc, at |-> line, value |-> NoArray, after |-> after]

Return(value, after) == [raised |-> "none", at |-> 0, value |-> value, after |-> after]

(***************************************************************************)
(* calc_vectors                                                            *)
(***************************************************************************)
\* faulty variant of calc_vectors_check: the frame-count check made before the check that
\* origin and destination have one shape
calc_vectors_check_reordered(p_origin, p_destination, boxdims) ==
    IF Len(p_origin.shape) # 3 THEN 23
    ELSE IF Len(boxdims.shape) # 2 THEN 25
    ELSE IF p_origin.shape[1] # boxdims.shape[1] THEN 30
    ELSE IF p_origin.shape # p_destination.shape THEN 27
    ELSE IF p_origin.shape[3] # boxdims.shape[2] THEN 33
    ELSE 0

\* the source line of the first shape check that fails, 0 when all pass
calc_vectors_check(p_origin, p_destination, boxdims) ==
    IF Len(p_origin.shape) # 3 THEN 23
    ELSE IF Len(boxdims.shape) # 2 THEN 25
    ELSE IF p_origin.shape # p_destination.shape THEN 27
    ELSE IF p_origin.shape[1] # boxdims.shape[1] THEN 30
    ELSE IF p_origin.shape[3] # boxdims.shape[2] THEN 33
    ELSE 0

(* Lines 36-55 run on an environment: a record of the three argument buffers  *)
(* and of the local names of the function.  Each statement is an operator   *)
(* from the environment before it to the environment after it.              *)

\* line 36: boxdims[:, np.newaxis, :] is a view, it reads the boxdims buffer when used
boxdims_reshaped(env) == NewAxis(env.boxdims)

\* line 37
boxdims_midpoint(env) ==
    CHOOSE result \in
        {[e EXCEPT !.boxdims_midpoint = ElemWise("/", boxdims_reshaped(e), Scalar(R(2)))]
            : e \in {env}} : TRUE

\* faulty variant of VecsBuffer: the subtraction done in place (p_destination -= p_origin),
\* so that vecs is another name of the caller's destination array
VecsBufferInPlace == "p_destination"

\* the buffer the name vecs refers to: the array newly allocated by the subtraction
VecsBuffer == "vecs"

\* line 38: vecs = p_destination - p_origin
subtract(env) ==
    CHOOSE result \in
        {[e EXCEPT ![VecsBuffer] = ElemWise("-", e.p_destination, e.p_origin)] : e \in {env}} : TRUE

\* line 39
veclengths(env) ==
    CHOOSE result \in
        {[e EXCEPT !.veclengths = MapArray("abs", e[VecsBuffer])] : e \in {env}} : TRUE

\* faulty variant of vecs_gt_boxdims: ">=" for ">", which also wraps a component on the midpoint
vecs_ge_boxdims(env) ==
    CHOOSE result \in
        {[e EXCEPT !.vecs_gt_boxdims = ElemWise(">=", e.veclengths, e.boxdims_midpoint)]
            : e \in {env}} : TRUE

\* line 42
vecs_gt_boxdims(env) ==
    CHOOSE result \in
        {[e EXCEPT !.vecs_gt_boxdims = ElemWise(">", e.veclengths, e.boxdims_midpoint)]
            : e \in {env}} : TRUE

\* line 46
negative_vecs(env) ==
    CHOOSE result \in
        {[e EXCEPT !.negative_vecs = ElemWise("<", e[VecsBuffer], Scalar(R(0)))] : e \in {env}} : TRUE

\* line 47
positive_vecs(env) ==
    CHOOSE result \in
        {[e EXCEPT !.positive_vecs = ElemWise(">", e[VecsBuffer], Scalar(R(0)))] : e \in {env}} : TRUE

\* line 50: vecs[gt & positive] = -(boxdims_reshaped - veclengths)[gt & positive]
wrap_previous(env) ==
    CHOOSE result \in
        {[e EXCEPT ![VecsBuffer] =
             MaskedAssign(e[VecsBuffer], ElemWise("&", e.vecs_gt_boxdims, e.positive_vecs),
                          MapArray("-", ElemWise("-", boxdims_reshaped(e), e.veclengths)))]
            : e \in {env}} : TRUE

\* faulty variant of wrap_next: the right-hand side of line 50 copied to line 53
wrap_next_negated(env) ==
    CHOOSE result \in
        {[e EXCEPT ![VecsBuffer] =
             MaskedAssign(e[VecsBuffer], ElemWise("&", e.vecs_gt_boxdims, e.negative_vecs),
                          MapArray("-", ElemWise("-", boxdims_reshaped(e), e.veclengths)))]
            : e \in {env}} : TRUE

\* line 53: vecs[gt & negative] = (boxdims_reshaped - veclengths)[gt & negative]
wrap_next(env) ==
    CHOOSE result \in
        {[e EXCEPT ![VecsBuffer] =
             MaskedAssign(e[VecsBuffer], ElemWise("&", e.vecs_gt_boxdims, e.negative_vecs),
                          ElemWise("-", boxdims_reshaped(e), e.veclengths))]
            : e \in {env}} : TRUE

\* lines 36-53, statement after statement
calc_vectors_body(env) ==
    wrap_next(wrap_previous(positive_vecs(negative_vecs(vecs_gt_boxdims(
        veclengths(subtract(boxdims_midpoint(env))))))))

\* line 55: return vecs; the argument buffers are as the statements left them
calc_vectors_return(env) ==
    CHOOSE result \in
        {Return(e[VecsBuffer], <<e.p_origin, e.p_destination, e.boxdims>>) : e \in {env}} : TRUE

\* the environment at line 36
calc_vectors_enter(p_origin, p_destination, boxdims) ==
    [p_origin |-> p_origin, p_destination |-> p_destination, boxdims |-> boxdims,
     vecs |-> NoArray, boxdims_midpoint |-> NoArray, veclengths |-> NoArray,
     vecs_gt_boxdims |-> NoArray, negative_vecs |-> NoArray, positive_vecs |-> NoArray]

calc_vectors(p_origin, p_destination, boxdims) ==
    IF calc_vectors_check(p_origin, p_destination, boxdims) # 0
    THEN Raise("ValueError", calc_vectors_check(p_origin, p_destination, boxdims),
               <<p_origin, p_destination, boxdims>>)
    ELSE calc_vectors_return(calc_vectors_body(calc_vectors_enter(p_origin, p_destination, boxdims)))

(***************************************************************************)
(* multiply_coordinate_frame                                               *)
(***************************************************************************)
\* faulty variant of multiply_coordinate_frame: the repetition along axis 1, the particles
multiply_coordinate_frame_axis1(ref_xyz, n_frames) ==
    LET s == [ref_xyz.shape EXCEPT ![2] = ref_xyz.shape[2] * n_frames]
    IN  Return(Array(s, [i \in Indices(s) |->
                            ref_xyz.data[[i EXCEPT ![2] = ((i[2] - 1) \div n_frames) + 1]]]),
               <<ref_xyz, n_frames>>)

\* np.repeat(ref_xyz, n_frames, axis=0): every frame repeated n_frames times in place
multiply_coordinate_frame(ref_xyz, n_frames) ==
    LET s == [ref_xyz.shape EXCEPT ![1] = ref_xyz.shape[1] * n_frames]
    IN  Return(Array(s, [i \in Indices(s) |->
                            ref_xyz.data[[i EXCEPT ![1] = ((i[1] - 1) \div n_frames) + 1]]]),
               <<ref_xyz, n_frames>>)

(***************************************************************************)
(* scale_box_coordinates                                                   *)
(***************************************************************************)
\* lines 79-82: <<exception, line>> of the first failing check, <<"none", 0>> when
\* all pass; shape[2] and shape[1] of an array of too low a rank raise IndexError
scale_box_coordinates_check(traj_xyz, traj_dims, ref_dims) ==
    IF Len(traj_xyz.shape) < 3 THEN <<"IndexError", 79>>
    ELSE IF traj_xyz.shape[3] # NDims THEN <<"ValueError", 80>>
    ELSE IF Len(traj_dims.shape) < 2 THEN <<"IndexError", 79>>
    ELSE IF traj_dims.shape[2] # NDims THEN <<"ValueError", 80>>
    ELSE IF ref_dims.shape # <<NDims>> THEN <<"ValueError", 80>>
    ELSE IF traj_xyz.shape[1] # traj_dims.shape[1] THEN <<"ValueError", 82>>
    ELSE <<"none", 0>>

\* faulty variant of scale_factor: the quotient inverted
scale_factor_inverted(traj_dims, ref_dims) == ElemWise("/", ref_dims, traj_dims)

\* line 84
scale_factor(traj_dims, ref_dims) == ElemWise("/", traj_dims, ref_dims)

scale_box_coordinates(traj_xyz, traj_dims, ref_dims) ==
    LET chk   == scale_box_coordinates_check(traj_xyz, traj_dims, ref_dims)
        after == <<traj_xyz, traj_dims, ref_dims>>
    IN  IF chk[1] # "none" THEN Raise(chk[1], chk[2], after)
        ELSE IF ~Broadcastable(traj_dims.shape, ref_dims.shape)
        THEN Raise("ValueError", 84, after)
        ELSE IF ~Broadcastable(traj_xyz.shape, NewAxis(scale_factor(traj_dims, ref_dims)).shape)
        THEN Raise("ValueError", 85, after)
        ELSE Return(ElemWise("*", traj_xyz, NewAxis(scale_factor(traj_dims, ref_dims))), after)

(***************************************************************************)
(* calc_posres_forces                                                      *)
(***************************************************************************)
\* faulty variant of calc_posres_forces_check: the relaxed variant that compares the
\* trailing axes only and leaves the frame axis to broadcasting
calc_posres_forces_check_trailing(trajshape, refshape) ==
    IF Len(trajshape) < 3 \/ Len(refshape) < 3 THEN 109
    ELSE IF Tail(trajshape) # Tail(refshape) THEN 113
    ELSE 0

\* lines 107-113: the source line of the first failing check, 0 when both pass
calc_posres_forces_check(trajshape, refshape) ==
    IF Len(trajshape) < 3 \/ Len(refshape) < 3 THEN 109
    ELSE IF trajshape # refshape THEN 113
    ELSE 0

\* line 115
dists(traj_xyz, ref_xyz) == ElemWise("-", traj_xyz, ref_xyz)

\* faulty variant of forces: the restoring force F = -kX of the docstring
forces_restoring(spring_constant, displacement) ==
    MapArray("-", ElemWise("*", spring_constant, displacement))

\* line 116
forces(spring_constant, displacement) == ElemWise("*", spring_constant, displacement)

calc_posres_forces(traj_xyz, ref_xyz, spring_constant) ==
    LET line  == calc_posres_forces_check(traj_xyz.shape, ref_xyz.shape)
        after == <<traj_xyz, ref_xyz, spring_constant>>
    IN  IF line # 0 THEN Raise("ValueError", line, after)
        ELSE IF ~Broadcastable(traj_xyz.shape, ref_xyz.shape) THEN Raise("ValueError", 115, after)
        ELSE Return(forces(spring_constant, dists(traj_xyz, ref_xyz)), after)

(***************************************************************************)
(* The caller: it holds the argument arrays (args) of the function it      *)
(* calls (fn) and the outcome of the last call (ret).                      *)
(***************************************************************************)
NotCalled == [raised |-> "not called", at |-> 0, value |-> NoArray]

Outcome(r) == [raised |-> r.raised, at |-> r.at, value |-> r.value]

NoLocals == [pc |-> "none", ref_xyz |-> NoArray, forces |-> NoArray]

\* the call ends: the caller sees the outcome, and its arrays as the call left them
Finish(outcome) ==
    \E r \in {outcome} :
        /\ ret' = Outcome(r)
        /\ args' = r.after

Call_calc_vectors ==
    /\ fn = "calc_vectors"
    /\ Finish(calc_vectors(args[1], args[2], args[3]))
    /\ UNCHANGED <<fn, locals>>

Call_scale_box_coordinates ==
    /\ fn = "scale_box_coordinates"
    /\ Finish(scale_box_coordinates(args[1], args[2], args[3]))
    /\ UNCHANGED <<fn, locals>>

Call_calc_posres_forces ==
    /\ fn = "calc_posres_forces"
    /\ Finish(calc_posres_forces(args[1], args[2], args[3]))
    /\ UNCHANGED <<fn, locals>>

(***************************************************************************)
(* basic_force_test: the caller's composition of the three steps.  args is *)
(* <<ref_pdb.xyz, dummy_traj.xyz, traj_dims, ref_dims, spring_constant>>;  *)
(* locals holds the script's position, its ref_xyz and its forces.         *)
(***************************************************************************)
NextStep(r, step) == IF r.raised = "none" THEN step ELSE "failed"

\* ref_xyz = multiply_coordinate_frame(ref_pdb.xyz, n_frames)
Script_frame_matching ==
    /\ fn = "basic_force_test"
    /\ locals.pc = "frame_matching"
    /\ \E r \in {multiply_coordinate_frame(args[1], args[2].shape[1])} :
        /\ ret' = Outcome(r)
        /\ args' = [args EXCEPT ![1] = r.after[1]]
        /\ locals' = [locals EXCEPT !.pc = NextStep(r, "scaling"), !.ref_xyz = r.value]
    /\ UNCHANGED fn

\* ref_xyz = scale_box_coordinates(ref_xyz, traj_dims, ref_dims)
Script_scaling ==
    /\ fn = "basic_force_test"
    /\ locals.pc = "scaling"
    /\ \E r \in {scale_box_coordinates(locals.ref_xyz, args[3], args[4])} :
        /\ ret' = Outcome(r)
        /\ args' = [args EXCEPT ![3] = r.after[2], ![4] = r.after[3]]
        /\ locals' = [locals EXCEPT !.pc = NextStep(r, "forces"), !.ref_xyz = r.value]
    /\ UNCHANGED fn

\* forces = calc_posres_forces(dummy_traj.xyz, ref_xyz, spring_constant)
Script_forces ==
    /\ fn = "basic_force_test"
    /\ locals.pc = "forces"
    /\ \E r \in {calc_posres_forces(args[2], locals.ref_xyz, args[5])} :
        /\ ret' = Outcome(r)
        /\ args' = [args EXCEPT ![2] = r.after[1], ![5] = r.after[3]]
        /\ locals' = [locals EXCEPT !.pc = NextStep(r, "done"), !.forces = r.value]
    /\ UNCHANGED fn

(***************************************************************************)
(* Input arrays, built as the unit tests build theirs.                     *)
(***************************************************************************)
\* np.zeros(shape) + v
Full(shape, v) == Array(shape, [i \in Indices(shape) |-> v])

\* np.zeros(shape) + vec: vec along the last axis
Rows(shape, vec) == Array(shape, [i \in Indices(shape) |-> vec[i[Len(i)]]])

\* A[i] = v
WithEntry(A, i, v) == [A EXCEPT !.data[i] = v]

Coords == {R(c) : c \in 0..MaxCoord}

\* box edge lengths; positive, as the data model requires
Boxes == {R(3), R(4)}

PositionShapes == {<<F, P, D>> : F \in 1..MaxFrames, P \in 1..MaxParticles, D \in 1..NDims}

\* the first and the last index of an array of this shape
Corners(shape) == {[k \in 1..Len(shape) |-> 1], shape}

(***************************************************************************)
(* SpecVec: calc_vectors on well-formed inputs.  origin is uniform, and    *)
(* destination and boxdims are uniform except at one entry, so that a      *)
(* component and its neighbours on every axis can fall in different cases. *)
(***************************************************************************)
InitVec ==
    \E s \in PositionShapes : \E hot \in Corners(s) :
    \E o \in {R(0), R(MaxCoord)} : \E d \in {R(1), R(MaxCoord - 1)} : \E d2 \in Coords :
    \E b \in Boxes : \E b2 \in Boxes :
        /\ fn = "calc_vectors"
        /\ args = << Full(s, o),
                     WithEntry(Full(s, d), hot, d2),
                     WithEntry(Full(<<s[1], s[3]>>, b), <<hot[1], hot[3]>>, b2) >>
        /\ ret = NotCalled
        /\ locals = NoLocals

NextVec == Call_calc_vectors

SpecVec == InitVec /\ [][NextVec]_vars

Returned == ret.raised = "none"

\* the raw displacement destination - origin of the call's arguments
RawVector(i) == RSub(args[2].data[i], args[1].data[i])

\* the box edge of the frame and axis of index i
BoxEdge(i) == args[3].data[<<i[1], i[3]>>]

\* the component the minimum-image rule of the specification prescribes
ImageRule(v, box) ==
    IF RGt(RAbs(v), RDiv(box, R(2))) /\ RGt(v, R(0)) THEN RNeg(RSub(box, RAbs(v)))
    ELSE IF RGt(RAbs(v), RDiv(box, R(2))) /\ RLt(v, R(0)) THEN RSub(box, RAbs(v))
    ELSE v

\* C1: every component returned by calc_vectors is decided by its own raw
\* displacement v and its own box edge alone: -(box - |v|) when |v| > box/2 and
\* v > 0, +(box - |v|) when |v| > box/2 and v < 0, and v itself when |v| <= box/2.
C1_ComponentRule ==
    (fn = "calc_vectors" /\ Returned) =>
        /\ ret.value.shape = args[1].shape
        /\ \A i \in Indices(args[1].shape) : ret.value.data[i] = ImageRule(RawVector(i), BoxEdge(i))

\* a call in which one component is wrapped, and another sits exactly on the
\* midpoint and is returned as it is
C1_Witness ==
    /\ fn = "calc_vectors" /\ Returned
    /\ \E i, j \in Indices(args[1].shape) :
        /\ RGt(RAbs(RawVector(i)), RDiv(BoxEdge(i), R(2)))
        /\ ret.value.data[i] # RawVector(i)
        /\ RawVector(j) = RDiv(BoxEdge(j), R(2))
        /\ ret.value.data[j] = RawVector(j)

\* the difference of a returned component and its raw displacement is a whole
\* number of box edges
WholeImages(i) == RDiv(RSub(ret.value.data[i], RawVector(i)), BoxEdge(i))[2] = 1

WithinHalfBox(i) == RLe(RAbs(ret.value.data[i]), RDiv(BoxEdge(i), R(2)))

\* C2 as claimed: every returned component is the minimum-image displacement: it
\* differs from the raw displacement by a whole number of box edges and is at most
\* half a box edge long.
C2_MinimumImage ==
    (fn = "calc_vectors" /\ Returned) =>
        \A i \in Indices(args[1].shape) : WholeImages(i) /\ WithinHalfBox(i)

\* the raw displacement reaches at most one periodic image beyond the nearest:
\* |v| <= 3/2 box
WithinOneImage(i) == RLe(RAbs(RawVector(i)), RMul(Rat(3, 2), BoxEdge(i)))

\* C2 as amended: every returned component differs from the raw displacement by a
\* whole number of box edges, and is at most half a box edge long whenever the raw
\* displacement is at most three half box edges long.
C2_MinimumImageWithinOneImage ==
    (fn = "calc_vectors" /\ Returned) =>
        \A i \in Indices(args[1].shape) :
            WholeImages(i) /\ (WithinOneImage(i) => WithinHalfBox(i))

\* a call in which a negative displacement between 1/2 and 3/2 box edges is wrapped
C2_Witness ==
    /\ fn = "calc_vectors" /\ Returned
    /\ \E i \in Indices(args[1].shape) :
        /\ RLt(RawVector(i), R(0))
        /\ RGt(RAbs(RawVector(i)), RDiv(BoxEdge(i), R(2)))
        /\ WithinOneImage(i)
        /\ ret.value.data[i] = RSub(BoxEdge(i), RAbs(RawVector(i)))

(***************************************************************************)
(* SpecShape: every function on well-formed and malformed shapes.  Each    *)
(* argument has the shape the function expects or one that differs from it *)
(* in rank or in the size of one axis; the arrays are np.ones(shape).      *)
(***************************************************************************)
Variants(shape) ==
    {shape, SubSeq(shape, 1, Len(shape) - 1)}
        \cup {Append(shape, n) : n \in 1..NDims}
        \cup {[shape EXCEPT ![j] = n] : j \in 1..Len(shape), n \in 1..NDims}

Ones(shape) == Full(shape, R(1))

InitShape ==
    \E s \in PositionShapes :
        /\ \/ /\ fn = "calc_vectors"
              /\ \E s1 \in Variants(s) : \E s2 \in Variants(s) : \E s3 \in Variants(<<s[1], s[3]>>) :
                    args = <<Ones(s1), Ones(s2), Ones(s3)>>
           \/ /\ fn = "scale_box_coordinates"
              /\ \E s1 \in Variants(s) : \E s2 \in Variants(<<s[1], s[3]>>) : \E s3 \in Variants(<<s[3]>>) :
                    args = <<Ones(s1), Ones(s2), Ones(s3)>>
           \/ /\ fn = "calc_posres_forces"
              /\ \E s1 \in Variants(s) : \E s2 \in Variants(s) :
                    args = <<Ones(s1), Ones(s2), Scalar(R(10))>>
        /\ ret = NotCalled
        /\ locals = NoLocals

NextShape == Call_calc_vectors \/ Call_scale_box_coordinates \/ Call_calc_posres_forces

SpecShape == InitShape /\ [][NextShape]_vars

Called == ret # NotCalled

Rank(A) == Len(A.shape)

\* the call raised this exception at this source line and returned nothing
RaisedAt(exc, line) == ret.raised = exc /\ ret.at = line /\ ret.value = NoArray

\* the first of the five conditions of C3 that fails for the arguments, 0 if none
C3_FirstFailing ==
    IF Rank(args[1]) # 3 THEN 1
    ELSE IF Rank(args[3]) # 2 THEN 2
    ELSE IF args[1].shape # args[2].shape THEN 3
    ELSE IF args[1].shape[1] # args[3].shape[1] THEN 4
    ELSE IF args[1].shape[3] # args[3].shape[2] THEN 5
    ELSE 0

\* the raise statement of each of the five conditions
C3_RaiseLine == <<23, 25, 27, 30, 33>>

\* C3: calc_vectors raises the ValueError of the first failing condition among
\* (1) origin not rank 3, (2) box_dims not rank 2, (3) origin and destination shapes
\* differ, (4) frame counts differ, (5) last-axis sizes differ, returning nothing;
\* a call that passes all five raises nothing.
C3_ValidationOrder ==
    (fn = "calc_vectors" /\ Called) =>
        IF C3_FirstFailing = 0 THEN ret.raised = "none"
        ELSE RaisedAt("ValueError", C3_RaiseLine[C3_FirstFailing])

\* a call whose shapes fail condition (3) and condition (4) at once, answered by
\* the error of condition (3)
C3_Witness ==
    /\ fn = "calc_vectors" /\ Called
    /\ Rank(args[1]) = 3 /\ Rank(args[3]) = 2
    /\ args[1].shape # args[2].shape
    /\ args[1].shape[1] # args[3].shape[1]
    /\ RaisedAt("ValueError", 27)

LastAxis(A) == IF A.shape = <<>> THEN 0 ELSE A.shape[Len(A.shape)]

\* the arguments of scale_box_coordinates are as documented: traj_xyz of rank 3,
\* traj_dims of rank 2, ref_dims of rank 1, last axes of size 3, one frame count
C8_WellFormed ==
    /\ Rank(args[1]) = 3 /\ Rank(args[2]) = 2 /\ Rank(args[3]) = 1
    /\ LastAxis(args[1]) = NDims /\ LastAxis(args[2]) = NDims /\ LastAxis(args[3]) = NDims
    /\ args[1].shape[1] = args[2].shape[1]

\* C8: scale_box_coordinates raises ValueError, returning nothing, for every
\* malformed input (a last axis not of size 3, frame counts that differ, a wrong
\* rank), and accepts every well-formed input.
C8_ScaleValidation ==
    (fn = "scale_box_coordinates" /\ Called) =>
        IF C8_WellFormed THEN ret.raised = "none"
        ELSE ret.raised = "ValueError" /\ ret.value = NoArray

\* a traj_xyz of rank 4 that is scaled without error
C8_AcceptedWrongRank ==
    /\ fn = "scale_box_coordinates" /\ Called
    /\ Rank(args[1]) = 4 /\ ret.raised = "none"

\* a traj_xyz of rank 2 that ends in IndexError
C8_IndexError ==
    /\ fn = "scale_box_coordinates" /\ Called
    /\ Rank(args[1]) = 2 /\ ret.raised = "IndexError"

(***************************************************************************)
(* SpecForce: scale_box_coordinates and calc_posres_forces on arrays whose *)
(* values differ between frames, particles and axes.  The reference of     *)
(* calc_posres_forces has the frames of the trajectory or a single frame.  *)
(***************************************************************************)
Shapes3D == {s \in PositionShapes : s[3] = NDims}

InitForce ==
    /\ \/ /\ fn = "calc_posres_forces"
          /\ \E s \in PositionShapes : \E hot \in Corners(s) :
             \E t \in {R(5), R(-3)} : \E t2 \in {R(5), R(-3)} :
             \E rs \in {s, <<1, s[2], s[3]>>} : \E r2 \in {R(1), R(2)} :
             \E k \in {R(10), R(-10), Rat(1, 2)} :
                args = << WithEntry(Full(s, t), hot, t2),
                          WithEntry(Full(rs, R(1)), rs, r2),
                          Scalar(k) >>
       \/ /\ fn = "scale_box_coordinates"
          /\ \E s \in Shapes3D : \E hot \in Corners(s) :
             \E vec \in {<<R(15), R(10), R(5)>>, <<R(1), R(1), R(1)>>} : \E x2 \in {R(15), R(-2)} :
             \E td \in {R(3), R(6), R(2)} :
             \E rv \in {<<R(1), R(6), R(3)>>, <<R(3), R(3), R(3)>>, <<R(2), R(4), R(7)>>} :
                args = << WithEntry(Rows(s, vec), hot, x2),
                          WithEntry(Full(<<s[1], NDims>>, R(3)), <<s[1], NDims>>, td),
                          Rows(<<NDims>>, rv) >>
    /\ ret = NotCalled
    /\ locals = NoLocals

NextForce == Call_scale_box_coordinates \/ Call_calc_posres_forces

SpecForce == InitForce /\ [][NextForce]_vars

SingleFrameReference ==
    /\ Rank(args[1]) = 3
    /\ args[1].shape[1] > 1
    /\ args[2].shape = <<1, args[1].shape[2], args[1].shape[3]>>

C7_ScaledValue ==
    (fn = "scale_box_coordinates" /\ Returned) =>
        /\ ret.value.shape = args[1].shape
        /\ \A i \in Indices(args[1].shape) :
              ret.value.data[i] =
                  RDiv(RMul(args[1].data[i], args[2].data[<<i[1], i[3]>>]), args[3].data[<<i[3]>>])

\* the example of the claim, [15,10,5] with traj_dims [3,3,3] and ref_dims [1,6,3]
\* scaled to [45,5,5] in one frame, while another frame has another factor
C7_Witness ==
    /\ fn = "scale_box_coordinates" /\ Returned
    /\ \E f, g \in 1..args[1].shape[1] : \E p \in 1..args[1].shape[2] :
        /\ [a \in 1..NDims |-> args[1].data[<<f, p, a>>]] = <<R(15), R(10), R(5)>>
        /\ [a \in 1..NDims |-> args[2].data[<<f, a>>]] = <<R(3), R(3), R(3)>>
        /\ [a \in 1..NDims |-> args[3].data[<<a>>]] = <<R(1), R(6), R(3)>>
        /\ [a \in 1..NDims |-> ret.value.data[<<f, p, a>>]] = <<R(45), R(5), R(5)>>
        /\ args[2].data[<<g, NDims>>] # args[2].data[<<f, NDims>>]

(***************************************************************************)
(* SpecPipe: basic_force_test on a single reference frame, a trajectory,   *)
(* its box edges per frame and the box edges of the reference.             *)
(***************************************************************************)
InitPipe ==
    /\ fn = "basic_force_test"
    /\ \E s \in Shapes3D : \E hot \in Corners(s) :
       \E vec \in {<<R(15), R(10), R(5)>>, <<R(1), R(1), R(1)>>} : \E x2 \in {R(15), R(-2)} :
       \E t2 \in {R(5), R(-3)} : \E td \in {R(3), R(6), R(2)} :
       \E rv \in {<<R(1), R(6), R(3)>>, <<R(3), R(3), R(3)>>, <<R(2), R(4), R(7)>>} :
       \E k \in {R(1000), R(10)} :
            args = << WithEntry(Rows(<<1, s[2], NDims>>, vec), <<1, s[2], NDims>>, x2),
                      WithEntry(Full(s, R(5)), hot, t2),
                      WithEntry(Full(<<s[1], NDims>>, R(3)), <<s[1], NDims>>, td),
                      Rows(<<NDims>>, rv),
                      Scalar(k) >>
    /\ ret = NotCalled
    /\ locals = [pc |-> "frame_matching", ref_xyz |-> NoArray, forces |-> NoArray]

NextPipe == Script_frame_matching \/ Script_scaling \/ Script_forces

SpecPipe == InitPipe /\ [][NextPipe]_vars

\* C10: on a reference of shape (1,P,3), a trajectory of shape (F,P,3), traj_dims of
\* shape (F,3) and ref_dims of shape (3,), no step of the pipeline raises;
\* multiply_coordinate_frame returns shape (F,P,3) with every frame equal to the
\* reference frame; and the forces have shape (F,P,3) with
\* forces[f,p,a] = k * (traj[f,p,a] - ref[0,p,a] * traj_dims[f,a] / ref_dims[a]).
C10_Pipeline ==
    fn = "basic_force_test" =>
        /\ locals.pc # "failed"
        /\ locals.pc = "scaling" =>
              /\ locals.ref_xyz.shape = args[2].shape
              /\ \A i \in Indices(args[2].shape) :
                    locals.ref_xyz.data[i] = args[1].data[<<1, i[2], i[3]>>]
        /\ locals.pc = "done" =>
              /\ locals.forces.shape = args[2].shape
              /\ \A i \in Indices(args[2].shape) :
                    locals.forces.data[i] =
                        RMul(args[5].data[<<>>],
                             RSub(args[2].data[i],
                                  RDiv(RMul(args[1].data[<<1, i[2], i[3]>>], args[3].data[<<i[1], i[3]>>]),
                                       args[4].data[<<i[3]>>])))

\* a finished pipeline over two frames whose boxes differ, with a force that is not
\* the unscaled k * (traj - ref)
C10_Witness ==
    /\ fn = "basic_force_test" /\ locals.pc = "done"
    /\ args[2].shape[1] = 2
    /\ args[3].data[<<1, NDims>>] # args[3].data[<<2, NDims>>]
    /\ \E i \in Indices(args[2].shape) :
          locals.forces.data[i] #
              RMul(args[5].data[<<>>], RSub(args[2].data[i], args[1].data[<<1, i[2], i[3]>>]))

(***************************************************************************)
(* Spec: every call of the specifications above, on all of their inputs.   *)
(***************************************************************************)
Init == InitVec \/ InitShape \/ InitForce \/ InitPipe

Next == \/ Call_calc_vectors
        \/ Call_scale_box_coordinates
        \/ Call_calc_posres_forces
        \/ Script_frame_matching
        \/ Script_scaling
        \/ Script_forces

Spec == Init /\ [][Next]_vars

\* C9: no call, returning or raising, changes an array passed to it, and a call
\* repeated on the same arguments has the same outcome.
C9_InputsUnchanged ==
    [][/\ args' = args
       /\ (Called /\ fn # "basic_force_test") => ret' = ret]_vars

\* a call of calc_vectors whose in-place correction has rewritten a component of
\* the result
C9_Witness ==
    /\ fn = "calc_vectors" /\ Returned
    /\ \E i \in Indices(args[1].shape) : ret.value.data[i] # RawVector(i)

====
